---- MODULE Spec2Model ----
(***************************************************************************)
(* Model of ovhacme: the DNS-01 issuance sequence of                       *)
(* ACMEClient.request_certificate (src/ovhacme.py) over the OVH DNS        *)
(* handler OVHDNSChallenge, and the record-location computation it uses.   *)
(*                                                                         *)
(* Strings the code cuts and joins (domain names, record names, record     *)
(* keys) are sequences of symbols: one symbol per character of a domain    *)
(* name, and one atomic symbol for a literal or an opaque token            *)
(* ("_acme-challenge", a validation value).                                *)
(***************************************************************************)
EXTENDS Integers, Sequences, FiniteSets, TLC

\* ------------------------------------------------------------------------
\* Bounds of the model
\* ------------------------------------------------------------------------

\* Longest order (number of authorizations) of the issuance specification.
MaxAuthz == 2

\* Most labels of a domain of the record-location specification.
MaxLabels == 5

\* ------------------------------------------------------------------------
\* Python string operations, on sequences of symbols
\* ------------------------------------------------------------------------

StartsWith(s, sub) ==
    /\ Len(sub) <= Len(s)
    /\ SubSeq(s, 1, Len(sub)) = sub

\* str.replace(old, new) for a non-empty old: every non-overlapping
\* occurrence, scanning from the left.
RECURSIVE Replace(_, _, _)
Replace(s, old, new) ==
    IF s = <<>> THEN <<>>
    ELSE IF StartsWith(s, old)
         THEN new \o Replace(SubSeq(s, Len(old) + 1, Len(s)), old, new)
         ELSE <<Head(s)>> \o Replace(Tail(s), old, new)

\* str.split(c): the pieces between the occurrences of the character c.
RECURSIVE Split(_, _)
Split(s, c) ==
    IF \A i \in 1..Len(s) : s[i] # c
    THEN <<s>>
    ELSE LET i == CHOOSE k \in 1..Len(s) :
                      s[k] = c /\ \A j \in 1..(k - 1) : s[j] # c
         IN  <<SubSeq(s, 1, i - 1)>> \o Split(SubSeq(s, i + 1, Len(s)), c)

\* c.join(parts)
RECURSIVE Join(_, _)
Join(parts, c) ==
    IF parts = <<>> THEN <<>>
    ELSE IF Len(parts) = 1 THEN parts[1]
    ELSE parts[1] \o <<c>> \o Join(Tail(parts), c)

\* parts[-2:]
LastTwo(parts) ==
    IF Len(parts) >= 2 THEN SubSeq(parts, Len(parts) - 1, Len(parts)) ELSE parts

\* str.strip(c): leading and trailing occurrences of the character c removed.
RECURSIVE LStrip(_, _)
LStrip(s, c) ==
    IF s # <<>> /\ Head(s) = c THEN LStrip(Tail(s), c) ELSE s

RECURSIVE RStrip(_, _)
RStrip(s, c) ==
    IF s # <<>> /\ s[Len(s)] = c THEN RStrip(SubSeq(s, 1, Len(s) - 1), c) ELSE s

Strip(s, c) == RStrip(LStrip(s, c), c)

\* ------------------------------------------------------------------------
\* Record location
\* ------------------------------------------------------------------------

\* ACMEClient._get_base_domain
get_base_domain(domain) ==
    LET parts == Split(domain, ".")
    IN  IF Len(parts) >= 2 THEN Join(LastTwo(parts), ".") ELSE domain

\* OVHDNSChallenge._get_zone
get_zone(domain) ==
    LET parts == Split(domain, ".")
    IN  IF Len(parts) >= 2 THEN Join(LastTwo(parts), ".") ELSE domain

\* A variant of clean_domain that leaves the wildcard marker in place.
clean_domain_keep_wildcard(domain_name) == domain_name

\* clean_domain = domain_name.replace('*.', '')
clean_domain(domain_name) == Replace(domain_name, <<"*", ".">>, <<>>)

\* subdomain = clean_domain.replace(f".{base_domain}", ""), "" when nothing
\* was removed
subdomain_of(clean, base_domain) ==
    LET subdomain == Replace(clean, <<".">> \o base_domain, <<>>)
    IN  IF subdomain = clean THEN <<>> ELSE subdomain

\* record_key = (base_domain, subdomain) of one authorization's domain
record_location(domain_name) ==
    LET clean == clean_domain(domain_name)
        base_domain == get_base_domain(clean)
    IN  <<base_domain, subdomain_of(clean, base_domain)>>

\* f'_acme-challenge.{subdomain}' if subdomain else '_acme-challenge'
record_name_of(subdomain) ==
    IF subdomain # <<>> THEN <<"_acme-challenge", ".">> \o subdomain
    ELSE <<"_acme-challenge">>

\* ------------------------------------------------------------------------
\* Program constants
\* ------------------------------------------------------------------------

\* challenge_deadline = time.time() + 90
PollTimeout == 90

\* time.sleep(5) between two polls
PollInterval == 5

\* ------------------------------------------------------------------------
\* Step 1 of request_certificate: grouping the challenges by record location
\* ------------------------------------------------------------------------

\* Index of the entry of challenges_by_record with key loc, 0 when absent.
group_index(cbr, loc) ==
    IF \E k \in 1..Len(cbr) : <<cbr[k].base_domain, cbr[k].subdomain>> = loc
    THEN CHOOSE k \in 1..Len(cbr) : <<cbr[k].base_domain, cbr[k].subdomain>> = loc
    ELSE 0

\* A variant of collect_challenge that starts the entry afresh for every
\* authorization instead of appending to the one already there.
collect_challenge_overwrite(cbr, i, authz) ==
    LET loc == record_location(authz.domain_name)
        k == group_index(cbr, loc)
        fresh == [base_domain |-> loc[1], subdomain |-> loc[2],
                  validations |-> <<authz.validation>>, challenges |-> <<i>>]
    IN  IF k = 0 THEN Append(cbr, fresh) ELSE [cbr EXCEPT ![k] = fresh]

\* One turn of the collection loop, for authorization i of the order (its
\* DNS-01 challenge found): the entry of its record location is created when
\* absent, then its validation and its challenge are appended to the entry.
collect_challenge(cbr, i, authz) ==
    LET loc == record_location(authz.domain_name)
        k == group_index(cbr, loc)
        cbr1 == IF k = 0
                THEN Append(cbr, [base_domain |-> loc[1], subdomain |-> loc[2],
                                  validations |-> <<>>, challenges |-> <<>>])
                ELSE cbr
        k1 == IF k = 0 THEN Len(cbr1) ELSE k
    IN  [cbr1 EXCEPT ![k1].validations = Append(@, authz.validation),
                     ![k1].challenges = Append(@, i)]

\* The position after (g, m) in the group-then-member order of the loops over
\* challenges_by_record.items() and an entry's list; <<0, 0>> after the last.
next_position(cbr, g, m, field) ==
    IF m < Len(cbr[g][field]) THEN <<g, m + 1>>
    ELSE IF g < Len(cbr) THEN <<g + 1, 1>>
    ELSE <<0, 0>>

\* ------------------------------------------------------------------------
\* The OVH zone API, as the handler uses it
\* ------------------------------------------------------------------------

RECURSIVE SortedSeq(_)
SortedSeq(S) ==
    IF S = {} THEN <<>>
    ELSE LET m == CHOOSE x \in S : \A y \in S : x <= y
         IN  <<m>> \o SortedSeq(S \ {m})

\* GET /domain/zone/{zone}/record?fieldType=TXT&subDomain={name}: the ids
ovh_list(zr, zone, name) ==
    SortedSeq({ r.id : r \in { q \in zr : q.zone = zone /\ q.subDomain = name } })

\* Whether DELETE /domain/zone/{zone}/record/{id} finds the record.
ovh_has(zr, zone, id) == \E r \in zr : r.zone = zone /\ r.id = id

\* DELETE /domain/zone/{zone}/record/{id}, when it succeeds
ovh_delete(zr, zone, id) == { r \in zr : ~(r.zone = zone /\ r.id = id) }

\* ------------------------------------------------------------------------
\* OVHDNSChallenge
\* ------------------------------------------------------------------------

\* record_key = f"{record_name}:{value}"
record_key_of(record_name, value) == record_name \o <<":", value>>

\* dict[key] = id
DictPut(d, key, id) ==
    [k \in (DOMAIN d) \cup {key} |-> IF k = key THEN id ELSE d[k]]

\* del dict[key]
DictDel(d, key) == [k \in (DOMAIN d) \ {key} |-> d[k]]

\* A variant of cleanup_old_challenge_records that refreshes the zone after
\* every listing, whether or not a record was found.
cleanup_old_challenge_records_always_refresh(zr, domain, subdomain, fail_at) ==
    LET zone == get_zone(domain)
        record_name == record_name_of(subdomain)
        existing_records == IF fail_at = 0 THEN <<>>
                            ELSE ovh_list(zr, zone, record_name)
        n == Len(existing_records)
        ndel == IF fail_at = 0 THEN 0
                ELSE IF fail_at <= n THEN fail_at - 1 ELSE n
        gone == { existing_records[j] : j \in 1..ndel }
    IN  [zone_records |-> { r \in zr : ~(r.zone = zone /\ r.id \in gone) },
         listed |-> fail_at # 0,
         deleted |-> ndel,
         refreshed |-> fail_at > n,
         failure |-> IF fail_at = 0 THEN "list"
                     ELSE IF fail_at <= n THEN "delete"
                     ELSE IF fail_at = n + 1 THEN "refresh"
                     ELSE "none",
         raised |-> FALSE]

\* A variant of cleanup_old_challenge_records whose delete loop leaves the
\* first listed record alone.
cleanup_old_challenge_records_skip_first(zr, domain, subdomain, fail_at) ==
    LET zone == get_zone(domain)
        record_name == record_name_of(subdomain)
        existing_records == IF fail_at = 0 THEN <<>>
                            ELSE ovh_list(zr, zone, record_name)
        n == Len(existing_records)
        ndel == IF fail_at = 0 THEN 0
                ELSE IF fail_at <= n THEN fail_at - 1 ELSE n
        gone == { existing_records[j] : j \in 2..ndel }
    IN  [zone_records |-> { r \in zr : ~(r.zone = zone /\ r.id \in gone) },
         listed |-> fail_at # 0,
         deleted |-> ndel,
         refreshed |-> n > 0 /\ fail_at > n,
         failure |-> IF fail_at = 0 THEN "list"
                     ELSE IF fail_at <= n THEN "delete"
                     ELSE IF n > 0 /\ fail_at = n + 1 THEN "refresh"
                     ELSE "none",
         raised |-> FALSE]

\* cleanup_old_challenge_records(domain, subdomain). fail_at names the
\* provider call that raises: 0 the listing, j in 1..n the j-th delete,
\* n + 1 the zone refresh, anything larger none. Every exception is caught.
cleanup_old_challenge_records(zr, domain, subdomain, fail_at) ==
    LET zone == get_zone(domain)
        record_name == record_name_of(subdomain)
        existing_records == IF fail_at = 0 THEN <<>>
                            ELSE ovh_list(zr, zone, record_name)
        n == Len(existing_records)
        ndel == IF fail_at = 0 THEN 0
                ELSE IF fail_at <= n THEN fail_at - 1 ELSE n
        gone == { existing_records[j] : j \in 1..ndel }
    IN  [zone_records |-> { r \in zr : ~(r.zone = zone /\ r.id \in gone) },
         listed |-> fail_at # 0,
         deleted |-> ndel,
         refreshed |-> n > 0 /\ fail_at > n,
         failure |-> IF fail_at = 0 THEN "list"
                     ELSE IF fail_at <= n THEN "delete"
                     ELSE IF n > 0 /\ fail_at = n + 1 THEN "refresh"
                     ELSE "none",
         raised |-> FALSE]

\* create_txt_record(domain, subdomain, value). outcome names the provider
\* call that raises: "post" the record creation, "refresh" the zone refresh,
\* "ok" none. An exception is printed and raised again.
create_txt_record(zr, rids, nid, domain, subdomain, value, outcome) ==
    LET zone == get_zone(domain)
        record_name == record_name_of(subdomain)
        record_key == record_key_of(record_name, value)
    IN  IF outcome = "post"
        THEN [zone_records |-> zr, record_ids |-> rids, next_id |-> nid,
              raised |-> TRUE]
        ELSE [zone_records |-> zr \cup { [id |-> nid, zone |-> zone,
                                          subDomain |-> record_name,
                                          target |-> <<value>>] },
              record_ids |-> DictPut(rids, record_key, nid),
              next_id |-> nid + 1,
              raised |-> outcome = "refresh"]

\* A variant of delete_txt_record that lets a provider error out.
delete_txt_record_raising(zr, rids, domain, subdomain, value, outcome) ==
    LET zone == get_zone(domain)
        record_name == record_name_of(subdomain)
        record_key == IF value # "" THEN record_key_of(record_name, value)
                      ELSE record_name
    IN  IF record_key \notin DOMAIN rids
        THEN [zone_records |-> zr, record_ids |-> rids, raised |-> FALSE]
        ELSE IF outcome = "delete" \/ ~ovh_has(zr, zone, rids[record_key])
        THEN [zone_records |-> zr, record_ids |-> rids, raised |-> TRUE]
        ELSE IF outcome = "refresh"
        THEN [zone_records |-> ovh_delete(zr, zone, rids[record_key]),
              record_ids |-> rids, raised |-> TRUE]
        ELSE [zone_records |-> ovh_delete(zr, zone, rids[record_key]),
              record_ids |-> DictDel(rids, record_key), raised |-> FALSE]

\* delete_txt_record(domain, subdomain, value). The key is record_name:value
\* when a value is given, the record name alone otherwise. outcome names the
\* provider call that raises: "delete", "refresh", or "ok" for none; the
\* delete also raises when the zone holds no record of that id. The entry is
\* removed after both calls succeeded; an exception is printed, not raised.
delete_txt_record(zr, rids, domain, subdomain, value, outcome) ==
    LET zone == get_zone(domain)
        record_name == record_name_of(subdomain)
        record_key == IF value # "" THEN record_key_of(record_name, value)
                      ELSE record_name
    IN  IF record_key \notin DOMAIN rids
        THEN [zone_records |-> zr, record_ids |-> rids, raised |-> FALSE]
        ELSE IF outcome = "delete" \/ ~ovh_has(zr, zone, rids[record_key])
        THEN [zone_records |-> zr, record_ids |-> rids, raised |-> FALSE]
        ELSE IF outcome = "refresh"
        THEN [zone_records |-> ovh_delete(zr, zone, rids[record_key]),
              record_ids |-> rids, raised |-> FALSE]
        ELSE [zone_records |-> ovh_delete(zr, zone, rids[record_key]),
              record_ids |-> DictDel(rids, record_key), raised |-> FALSE]

\* The verification of one entry of challenges_by_record against the zone
\* (the body of the loop of "Verifying records in OVH DNS zone"): FALSE when
\* a provider call raises or when the number of listed records whose target,
\* quotes stripped, is one of the validations differs from the number of
\* validations. quoted: whether the provider reports targets inside quotes.
verify_group(zr, info, failing, quoted) ==
    LET zone == get_zone(info.base_domain)
        record_name == record_name_of(info.subdomain)
        existing_records == ovh_list(zr, zone, record_name)
        target_value(id) ==
            LET t == (CHOOSE r \in zr : r.zone = zone /\ r.id = id).target
            IN  IF quoted THEN <<"\"">> \o t \o <<"\"">> ELSE t
        found_values ==
            SelectSeq(existing_records,
                      LAMBDA id : \E j \in 1..Len(info.validations) :
                          Strip(target_value(id), "\"") = <<info.validations[j]>>)
    IN  IF failing THEN FALSE
        ELSE Len(found_values) = Len(info.validations)

\* ------------------------------------------------------------------------
\* State
\* ------------------------------------------------------------------------

VARIABLES
    \* record-location specification: one domain and the two locations computed
    \* for it, without and with the wildcard prefix
    rlabels, rplain, rstar,
    \* config.DOMAINS, the domains the certificate or the cleanup is for
    DOMAINS,
    \* the ACME server's order: the authorizations, in order
    order,
    \* the OVH zone: the TXT records the provider holds, and the next record id
    zone_records, next_id,
    \* OVHDNSChallenge.record_ids
    record_ids,
    \* request_certificate: position and locals. elapsed is the time since
    \* challenge_deadline was set, time.time() - (challenge_deadline - 90),
    \* kept only while the poll loop of one domain runs
    pc, ci, challenges_by_record, cleaned_locations, dns_records_created,
    all_records_present, gi, mi, authz_response, elapsed, ti, caught,
    \* what request_certificate gave its caller, and what main wrote
    result, err, saved,
    \* history of the calls made so far
    cleanup_calls, delete_calls, answered, polled, validated, invalid_at,
    waited, finalize_called, trigger, failed_step, last_cleanup

rvars == <<rlabels, rplain, rstar>>

hvars == <<cleanup_calls, delete_calls, answered, polled, validated,
           invalid_at, waited, finalize_called, trigger, failed_step,
           last_cleanup>>

ivars == <<DOMAINS, order, zone_records, next_id, record_ids, pc, ci,
           challenges_by_record, cleaned_locations, dns_records_created,
           all_records_present, gi, mi, authz_response, elapsed, ti, caught,
           result, err, saved>>

vars == <<rvars, ivars, hvars>>

\* ------------------------------------------------------------------------
\* Record-location specification: record_location applied to one domain,
\* as requested and with the wildcard prefix "*." put before it
\* ------------------------------------------------------------------------

\* The labels a domain of this specification is made of.
LabelSet == { <<>>, <<"a">>, <<"b">>, <<"a", "b">>, <<"*">> }

RECURSIVE SeqsUpTo(_, _)
SeqsUpTo(S, n) ==
    IF n = 0 THEN { <<>> }
    ELSE LET shorter == SeqsUpTo(S, n - 1)
         IN  shorter \cup { Append(q, x) : q \in shorter, x \in S }

WildcardPrefix == <<"*", ".">>

\* The issuance variables while only record locations are computed.
IssuanceIdle ==
    /\ DOMAINS = <<>>
    /\ order = <<>>
    /\ zone_records = {}
    /\ next_id = 1
    /\ record_ids = <<>>
    /\ pc = "idle"
    /\ ci = 0
    /\ challenges_by_record = <<>>
    /\ cleaned_locations = {}
    /\ dns_records_created = <<>>
    /\ all_records_present = TRUE
    /\ gi = 0
    /\ mi = 0
    /\ authz_response = "unbound"
    /\ elapsed = 0
    /\ ti = 0
    /\ caught = <<>>
    /\ result = "running"
    /\ err = <<>>
    /\ saved = FALSE
    /\ cleanup_calls = <<>>
    /\ delete_calls = <<>>
    /\ answered = <<>>
    /\ polled = {}
    /\ validated = {}
    /\ invalid_at = 0
    /\ waited = FALSE
    /\ finalize_called = FALSE
    /\ trigger = <<>>
    /\ failed_step = "none"
    /\ last_cleanup = <<>>

InitResolve ==
    /\ rlabels \in SeqsUpTo(LabelSet, MaxLabels) \ { <<>> }
    /\ rplain = <<>>
    /\ rstar = <<>>
    /\ IssuanceIdle

ResolvePlain ==
    /\ pc = "idle"
    /\ rplain = <<>>
    /\ rplain' = record_location(Join(rlabels, "."))
    /\ UNCHANGED <<rlabels, rstar, ivars, hvars>>

ResolveWildcard ==
    /\ pc = "idle"
    /\ rstar = <<>>
    /\ rstar' = record_location(WildcardPrefix \o Join(rlabels, "."))
    /\ UNCHANGED <<rlabels, rplain, ivars, hvars>>

NextResolve == ResolvePlain \/ ResolveWildcard

SpecResolve == InitResolve /\ [][NextResolve]_vars

\* ------------------------------------------------------------------------
\* Issuance specification: main calling request_certificate for one order
\* ------------------------------------------------------------------------

ApexDomain == <<"a", ".", "b">>
WildcardDomain == <<"*", ".", "a", ".", "b">>
SubDomain == <<"c", ".", "a", ".", "b">>
OtherZoneDomain == <<"a", ".", "c">>

\* The authorizations an order is made of: the identifier, the validation
\* value of its DNS-01 challenge, and whether it offers a DNS-01 challenge.
\* The ACME server names a wildcard's authorization by the domain with or
\* without the "*." marker.
AuthzPool ==
    { [domain_name |-> p[1], validation |-> p[2], dns01 |-> b] :
        p \in { <<ApexDomain, "v1">>, <<ApexDomain, "v2">>,
                <<WildcardDomain, "v2">>, <<SubDomain, "v2">>,
                <<OtherZoneDomain, "v1">> },
        b \in BOOLEAN }

\* The protocol's guarantee on an order: the validation values of the
\* authorizations of one name (wildcard marker aside) are pairwise distinct.
DistinctValidations(o) ==
    \A i, j \in 1..Len(o) :
        (i < j /\ Replace(o[i].domain_name, WildcardPrefix, <<>>)
                    = Replace(o[j].domain_name, WildcardPrefix, <<>>))
            => o[i].validation # o[j].validation

Orders == { o \in SeqsUpTo(AuthzPool, MaxAuthz) \ { <<>> } : DistinctValidations(o) }

\* What the zone holds before the request: nothing, or a TXT record left at
\* _acme-challenge.a.b by an earlier run.
OldZones ==
    { {},
      { [id |-> 1, zone |-> ApexDomain, subDomain |-> <<"_acme-challenge">>,
         target |-> <<"v1">>] } }

Min(a, b) == IF a <= b THEN a ELSE b

\* Time that passes before the loop condition reads the clock: none, or (the
\* process held up, the clock stepped) enough to pass the deadline.
Delays == { 0, PollTimeout }

InitIssuance ==
    /\ rlabels = <<>>
    /\ rplain = <<>>
    /\ rstar = <<>>
    /\ order \in Orders
    /\ DOMAINS = [i \in 1..Len(order) |-> order[i].domain_name]
    /\ zone_records \in OldZones
    /\ next_id = 2
    /\ record_ids = <<>>
    /\ pc = "collect"
    /\ ci = 1
    /\ challenges_by_record = <<>>
    /\ cleaned_locations = {}
    /\ dns_records_created = <<>>
    /\ all_records_present = TRUE
    /\ gi = 0
    /\ mi = 0
    /\ authz_response = "unbound"
    /\ elapsed = 0
    /\ ti = 0
    /\ caught = <<>>
    /\ result = "running"
    /\ err = <<>>
    /\ saved = FALSE
    /\ cleanup_calls = <<>>
    /\ delete_calls = <<>>
    /\ answered = <<>>
    /\ polled = {}
    /\ validated = {}
    /\ invalid_at = 0
    /\ waited = FALSE
    /\ finalize_called = FALSE
    /\ trigger = <<>>
    /\ failed_step = "none"
    /\ last_cleanup = <<>>

\* An exception leaves request_certificate; main prints it and raises it again.
RaiseToCaller(e, step) ==
    /\ result' = "raised"
    /\ err' = e
    /\ trigger' = e
    /\ failed_step' = step
    /\ pc' = "done"

\* An exception is raised inside the try of Step 6: the handler runs.
RaiseInTry(e) ==
    /\ caught' = e
    /\ trigger' = e
    /\ failed_step' = "poll"
    /\ pc' = "teardown_fail"
    /\ ti' = 1
    /\ elapsed' = 0

\* The authorization (its index in the order) at position (gi, mi).
CurrentAuthz == challenges_by_record[gi].challenges[mi]

\* A variant of cleanup_needed that cleans the first location only.
cleanup_needed_first_only(location_key, cleaned) == cleaned = {}

\* if location_key not in cleaned_locations
cleanup_needed(location_key, cleaned) == location_key \notin cleaned

\* A variant of has_dns_challenge that takes whatever challenge comes first.
has_dns_challenge_any(authz) == TRUE

\* dns_challenge is set: one of authz.body.challenges is a DNS01 challenge
has_dns_challenge(authz) == authz.dns01

\* Step 1: one authorization of the order.
CollectChallenge ==
    /\ pc = "collect"
    /\ IF ~has_dns_challenge(order[ci])
       THEN /\ RaiseToCaller(<<"NoDNS01">>, "collect")
            /\ UNCHANGED <<ci, challenges_by_record, gi>>
       ELSE /\ challenges_by_record' =
                   collect_challenge(challenges_by_record, ci, order[ci])
            /\ IF ci < Len(order)
               THEN ci' = ci + 1 /\ UNCHANGED <<pc, gi>>
               ELSE pc' = "cleanup" /\ gi' = 1 /\ UNCHANGED ci
            /\ UNCHANGED <<result, err, trigger, failed_step>>
    /\ UNCHANGED <<rvars, DOMAINS, order, zone_records, next_id, record_ids,
                   cleaned_locations, dns_records_created, all_records_present,
                   mi, authz_response, elapsed, ti, caught, saved,
                   cleanup_calls, delete_calls, answered, polled, validated,
                   invalid_at, waited, finalize_called, last_cleanup>>

\* Step 2, first loop: the old records of one record location.
CleanupLocation ==
    /\ pc = "cleanup"
    /\ LET info == challenges_by_record[gi]
           location_key == <<info.base_domain, info.subdomain>>
           n == Len(ovh_list(zone_records, get_zone(info.base_domain),
                             record_name_of(info.subdomain)))
       IN  \E fail_at \in 0..(n + 2) :
             LET r == cleanup_old_challenge_records(
                          zone_records, info.base_domain, info.subdomain, fail_at)
             IN  IF ~cleanup_needed(location_key, cleaned_locations)
                 THEN /\ UNCHANGED <<zone_records, cleaned_locations,
                                     cleanup_calls, last_cleanup>>
                      /\ UNCHANGED <<result, err, trigger, failed_step>>
                      /\ IF gi < Len(challenges_by_record)
                         THEN gi' = gi + 1 /\ UNCHANGED <<pc, mi>>
                         ELSE pc' = "create" /\ gi' = 1 /\ mi' = 1
                 ELSE /\ zone_records' = r.zone_records
                      /\ cleanup_calls' = Append(cleanup_calls, location_key)
                      /\ last_cleanup' = <<r.listed, r.deleted, r.refreshed, r.failure>>
                      /\ IF r.raised
                         THEN /\ RaiseToCaller(<<"ProviderError">>, "cleanup")
                              /\ UNCHANGED <<cleaned_locations, gi, mi>>
                         ELSE /\ cleaned_locations' =
                                     cleaned_locations \cup {location_key}
                              /\ UNCHANGED <<result, err, trigger, failed_step>>
                              /\ IF gi < Len(challenges_by_record)
                                 THEN gi' = gi + 1 /\ UNCHANGED <<pc, mi>>
                                 ELSE pc' = "create" /\ gi' = 1 /\ mi' = 1
    /\ UNCHANGED <<rvars, DOMAINS, order, next_id, record_ids, ci, challenges_by_record,
                   dns_records_created, all_records_present, authz_response,
                   elapsed, ti, caught, saved, delete_calls, answered, polled,
                   validated, invalid_at, waited, finalize_called>>

\* Step 2, second loop: the TXT record of one validation value.
CreateRecord ==
    /\ pc = "create"
    /\ LET info == challenges_by_record[gi]
           validation == info.validations[mi]
           nxt == next_position(challenges_by_record, gi, mi, "validations")
       IN  \E outcome \in { "post", "refresh", "ok" } :
             LET r == create_txt_record(zone_records, record_ids, next_id,
                          info.base_domain, info.subdomain, validation, outcome)
             IN  /\ zone_records' = r.zone_records
                 /\ record_ids' = r.record_ids
                 /\ next_id' = r.next_id
                 /\ IF r.raised
                    THEN /\ RaiseToCaller(<<"ProviderError">>, "create")
                         /\ UNCHANGED <<dns_records_created, gi, mi>>
                    ELSE /\ dns_records_created' =
                                Append(dns_records_created,
                                       <<info.base_domain, info.subdomain, validation>>)
                         /\ UNCHANGED <<result, err, trigger, failed_step>>
                         /\ IF nxt = <<0, 0>>
                            THEN pc' = "verify" /\ gi' = 1 /\ mi' = 1
                            ELSE gi' = nxt[1] /\ mi' = nxt[2] /\ UNCHANGED pc
    /\ UNCHANGED <<rvars, DOMAINS, order, ci, challenges_by_record, cleaned_locations,
                   all_records_present, authz_response, elapsed, ti, caught,
                   saved, cleanup_calls, delete_calls, answered, polled,
                   validated, invalid_at, waited, finalize_called, last_cleanup>>

\* A variant of after_verification that stops the request on a mismatch.
after_verification_strict(present) == IF present THEN "wait" ELSE "raise"

\* What follows the verification loop: a warning or a confirmation is
\* printed, and the propagation wait comes next either way.
after_verification(present) == "wait"

\* "Verifying records in OVH DNS zone": one entry of challenges_by_record.
VerifyRecords ==
    /\ pc = "verify"
    /\ \E failing \in BOOLEAN, quoted \in BOOLEAN :
         LET present == all_records_present /\
                          verify_group(zone_records, challenges_by_record[gi],
                                       failing, quoted)
         IN  /\ all_records_present' = present
             /\ IF gi < Len(challenges_by_record)
                THEN /\ gi' = gi + 1
                     /\ UNCHANGED <<pc, result, err, trigger, failed_step>>
                ELSE IF after_verification(present) = "wait"
                THEN /\ pc' = "wait"
                     /\ UNCHANGED <<gi, result, err, trigger, failed_step>>
                ELSE /\ RaiseToCaller(<<"VerificationError">>, "verify")
                     /\ UNCHANGED gi
    /\ UNCHANGED <<rvars, DOMAINS, order, zone_records, next_id, record_ids, ci,
                   challenges_by_record, cleaned_locations, dns_records_created,
                   mi, authz_response, elapsed, ti, caught, saved,
                   cleanup_calls, delete_calls, answered, polled, validated,
                   invalid_at, waited, finalize_called, last_cleanup>>

\* Step 3: time.sleep(DNS_PROPAGATION_WAIT)
PropagationWait ==
    /\ pc = "wait"
    /\ waited' = TRUE
    /\ pc' = "probe"
    /\ UNCHANGED <<rvars, DOMAINS, order, zone_records, next_id, record_ids, ci,
                   challenges_by_record, cleaned_locations, dns_records_created,
                   all_records_present, gi, mi, authz_response, elapsed, ti,
                   caught, result, err, saved, cleanup_calls, delete_calls,
                   answered, polled, validated, invalid_at, finalize_called,
                   trigger, failed_step, last_cleanup>>

\* Step 4: the public resolver is asked for every domain; what it answers or
\* raises is printed only.
ProbePublicDNS ==
    /\ pc = "probe"
    /\ pc' = "answer"
    /\ gi' = 1
    /\ mi' = 1
    /\ UNCHANGED <<rvars, DOMAINS, order, zone_records, next_id, record_ids, ci,
                   challenges_by_record, cleaned_locations, dns_records_created,
                   all_records_present, authz_response, elapsed, ti, caught,
                   result, err, saved, cleanup_calls, delete_calls, answered,
                   polled, validated, invalid_at, waited, finalize_called,
                   trigger, failed_step, last_cleanup>>

\* Step 5: answer_challenge for one challenge; an exception leaves
\* request_certificate at once.
AnswerChallenge ==
    /\ pc = "answer"
    /\ LET nxt == next_position(challenges_by_record, gi, mi, "challenges")
       IN  \E ok \in BOOLEAN :
             IF ok
             THEN /\ answered' = Append(answered, CurrentAuthz)
                  /\ IF nxt = <<0, 0>>
                     THEN pc' = "poll_start" /\ gi' = 1 /\ mi' = 1
                     ELSE gi' = nxt[1] /\ mi' = nxt[2] /\ UNCHANGED pc
                  /\ UNCHANGED <<result, err, trigger, failed_step>>
             ELSE /\ RaiseToCaller(<<"AnswerError">>, "answer")
                  /\ UNCHANGED <<answered, gi, mi>>
    /\ UNCHANGED <<rvars, DOMAINS, order, zone_records, next_id, record_ids, ci,
                   challenges_by_record, cleaned_locations, dns_records_created,
                   all_records_present, authz_response, elapsed, ti, caught,
                   saved, cleanup_calls, delete_calls, polled, validated,
                   invalid_at, waited, finalize_called, last_cleanup>>

\* What self.client.poll gives: the authorization's status (every status
\* other than valid and invalid is waited on like pending), or an exception.
PollResults == { "valid", "invalid", "pending", "error" }

\* A variant of poll_outcome that leaves the loop on invalid as on valid.
poll_outcome_break_on_invalid(status) ==
    IF status = "valid" \/ status = "invalid" THEN "break" ELSE "sleep"

\* The branch the loop body takes on the status of the response.
poll_outcome(status) ==
    IF status = "valid" THEN "break"
    ELSE IF status = "invalid" THEN "raise"
    ELSE "sleep"

\* The check after the while loop, on the authz_response variable as the
\* loop left it: unbound when no poll was made in this call so far.
after_poll_loop(response) ==
    IF response = "unbound" THEN "unbound"
    ELSE IF response # "valid" THEN "timeout"
    ELSE "next"

\* Step 6: challenge_deadline = time.time() + 90 for the next domain
PollStart ==
    /\ pc = "poll_start"
    /\ elapsed' = 0
    /\ pc' = "poll_loop"
    /\ UNCHANGED <<rvars, DOMAINS, order, zone_records, next_id, record_ids, ci,
                   challenges_by_record, cleaned_locations, dns_records_created,
                   all_records_present, gi, mi, authz_response, ti, caught,
                   result, err, saved, hvars>>

\* Step 6: the loop condition holds and the authorization is polled. elapsed
\* is the time since the deadline was set, no longer counted past it.
PollAuthorization ==
    /\ pc = "poll_loop"
    /\ \E d \in Delays, status \in PollResults :
         LET now == Min(elapsed + d, PollTimeout)
             domain_name == order[CurrentAuthz].domain_name
         IN  /\ now < PollTimeout
             /\ polled' = polled \cup {CurrentAuthz}
             /\ IF status = "error"
                THEN /\ RaiseInTry(<<"PollError">>)
                     /\ UNCHANGED <<authz_response, validated, invalid_at>>
                ELSE /\ authz_response' = status
                     /\ validated' = IF status = "valid"
                                     THEN validated \cup {CurrentAuthz}
                                     ELSE validated
                     /\ invalid_at' = IF status = "invalid" /\ invalid_at = 0
                                      THEN CurrentAuthz ELSE invalid_at
                     /\ IF poll_outcome(status) = "break"
                        THEN /\ pc' = "poll_after"
                             /\ elapsed' = 0
                             /\ UNCHANGED <<ti, caught, trigger, failed_step>>
                        ELSE IF poll_outcome(status) = "raise"
                        THEN RaiseInTry(<<"ValidationFailed", domain_name>>)
                        ELSE /\ elapsed' = Min(now + PollInterval, PollTimeout)
                             /\ UNCHANGED <<pc, ti, caught, trigger, failed_step>>
    /\ UNCHANGED <<rvars, DOMAINS, order, zone_records, next_id, record_ids, ci,
                   challenges_by_record, cleaned_locations, dns_records_created,
                   all_records_present, gi, mi, result, err, saved,
                   cleanup_calls, delete_calls, answered, waited,
                   finalize_called, last_cleanup>>

\* Step 6: the loop condition fails, the deadline has passed.
LeavePollLoop ==
    /\ pc = "poll_loop"
    /\ \E d \in Delays : Min(elapsed + d, PollTimeout) >= PollTimeout
    /\ pc' = "poll_after"
    /\ elapsed' = 0
    /\ UNCHANGED <<rvars, DOMAINS, order, zone_records, next_id, record_ids, ci,
                   challenges_by_record, cleaned_locations, dns_records_created,
                   all_records_present, gi, mi, authz_response, ti, caught,
                   result, err, saved, hvars>>

\* Step 6: the check after the loop, then the next domain or Step 7.
AfterPollLoop ==
    /\ pc = "poll_after"
    /\ LET nxt == next_position(challenges_by_record, gi, mi, "challenges")
           domain_name == order[CurrentAuthz].domain_name
           branch == after_poll_loop(authz_response)
       IN  IF branch = "unbound"
           THEN RaiseInTry(<<"UnboundLocalError">>) /\ UNCHANGED <<gi, mi>>
           ELSE IF branch = "timeout"
           THEN RaiseInTry(<<"TimeoutError", domain_name>>) /\ UNCHANGED <<gi, mi>>
           ELSE /\ IF nxt = <<0, 0>>
                   THEN pc' = "teardown_ok" /\ ti' = 1 /\ UNCHANGED <<gi, mi>>
                   ELSE pc' = "poll_start" /\ gi' = nxt[1] /\ mi' = nxt[2]
                          /\ UNCHANGED ti
                /\ UNCHANGED <<caught, trigger, failed_step, elapsed>>
    /\ UNCHANGED <<rvars, DOMAINS, order, zone_records, next_id, record_ids, ci,
                   challenges_by_record, cleaned_locations, dns_records_created,
                   all_records_present, authz_response, result, err, saved,
                   cleanup_calls, delete_calls, answered, polled, validated,
                   invalid_at, waited, finalize_called, last_cleanup>>

\* The provider call of delete_txt_record that raises, if any.
DeleteOutcomes == { "delete", "refresh", "ok" }

\* The except handler of Step 6: delete_txt_record for one created record.
TeardownOnError ==
    /\ pc = "teardown_fail"
    /\ ti <= Len(dns_records_created)
    /\ \E outcome \in DeleteOutcomes :
         LET c == dns_records_created[ti]
             r == delete_txt_record(zone_records, record_ids,
                                    c[1], c[2], c[3], outcome)
         IN  /\ zone_records' = r.zone_records
             /\ record_ids' = r.record_ids
             /\ delete_calls' = Append(delete_calls, c)
             /\ IF r.raised
                THEN /\ result' = "raised"
                     /\ err' = <<"ProviderError">>
                     /\ pc' = "done"
                     /\ UNCHANGED ti
                ELSE /\ ti' = ti + 1
                     /\ UNCHANGED <<result, err, pc>>
    /\ UNCHANGED <<rvars, DOMAINS, order, next_id, ci, challenges_by_record,
                   cleaned_locations, dns_records_created, all_records_present,
                   gi, mi, authz_response, elapsed, caught, saved,
                   cleanup_calls, answered, polled, validated, invalid_at,
                   waited, finalize_called, trigger, failed_step, last_cleanup>>

\* The except handler of Step 6: raise, after the loop over the records.
Reraise ==
    /\ pc = "teardown_fail"
    /\ ti > Len(dns_records_created)
    /\ result' = "raised"
    /\ err' = caught
    /\ pc' = "done"
    /\ UNCHANGED <<rvars, DOMAINS, order, zone_records, next_id, record_ids, ci,
                   challenges_by_record, cleaned_locations, dns_records_created,
                   all_records_present, gi, mi, authz_response, elapsed, ti,
                   caught, saved, hvars>>

\* Step 7: delete_txt_record for one created record.
TeardownOnSuccess ==
    /\ pc = "teardown_ok"
    /\ \E outcome \in DeleteOutcomes :
         LET c == dns_records_created[ti]
             r == delete_txt_record(zone_records, record_ids,
                                    c[1], c[2], c[3], outcome)
         IN  /\ zone_records' = r.zone_records
             /\ record_ids' = r.record_ids
             /\ delete_calls' = Append(delete_calls, c)
             /\ IF r.raised
                THEN /\ RaiseToCaller(<<"ProviderError">>, "teardown")
                     /\ UNCHANGED ti
                ELSE /\ UNCHANGED <<result, err, trigger, failed_step>>
                     /\ IF ti < Len(dns_records_created)
                        THEN ti' = ti + 1 /\ UNCHANGED pc
                        ELSE pc' = "finalize" /\ UNCHANGED ti
    /\ UNCHANGED <<rvars, DOMAINS, order, next_id, ci, challenges_by_record,
                   cleaned_locations, dns_records_created, all_records_present,
                   gi, mi, authz_response, elapsed, caught, saved,
                   cleanup_calls, answered, polled, validated, invalid_at,
                   waited, finalize_called, last_cleanup>>

\* Step 8: poll_and_finalize returns the order or raises.
FinalizeOrder ==
    /\ pc = "finalize"
    /\ finalize_called' = TRUE
    /\ \E ok \in BOOLEAN :
         IF ok
         THEN /\ result' = "returned"
              /\ pc' = "main_save"
              /\ UNCHANGED <<err, trigger, failed_step>>
         ELSE RaiseToCaller(<<"FinalizeError">>, "finalize")
    /\ UNCHANGED <<rvars, DOMAINS, order, zone_records, next_id, record_ids, ci,
                   challenges_by_record, cleaned_locations, dns_records_created,
                   all_records_present, gi, mi, authz_response, elapsed, ti,
                   caught, saved, cleanup_calls, delete_calls, answered, polled,
                   validated, invalid_at, waited, last_cleanup>>

\* main: the certificate chain and the private key are written.
SaveCertificate ==
    /\ pc = "main_save"
    /\ saved' = TRUE
    /\ pc' = "done"
    /\ UNCHANGED <<rvars, DOMAINS, order, zone_records, next_id, record_ids, ci,
                   challenges_by_record, cleaned_locations, dns_records_created,
                   all_records_present, gi, mi, authz_response, elapsed, ti,
                   caught, result, err, hvars>>

Next ==
    \/ CollectChallenge
    \/ CleanupLocation
    \/ CreateRecord
    \/ VerifyRecords
    \/ PropagationWait
    \/ ProbePublicDNS
    \/ AnswerChallenge
    \/ PollStart
    \/ PollAuthorization
    \/ LeavePollLoop
    \/ AfterPollLoop
    \/ TeardownOnError
    \/ Reraise
    \/ TeardownOnSuccess
    \/ FinalizeOrder
    \/ SaveCertificate

Spec == InitIssuance /\ [][Next]_vars

\* ------------------------------------------------------------------------
\* Cleanup specification: cleanup_old_challenge_records called again and
\* again for one location, nothing created in between
\* ------------------------------------------------------------------------

MaxOld == 2
MaxCalls == 3

\* TXT records left in the zone of a.b by earlier runs: k at _acme-challenge,
\* then possibly one at _acme-challenge.c, with the ids the provider gave.
OldRecords(k, other) ==
    { [id |-> i, zone |-> get_zone(ApexDomain),
       subDomain |-> record_name_of(<<>>), target |-> <<"v1">>] : i \in 1..k }
    \cup (IF other
          THEN { [id |-> k + 1, zone |-> get_zone(ApexDomain),
                  subDomain |-> record_name_of(<<"c">>), target |-> <<"v2">>] }
          ELSE {})

InitCleanup ==
    /\ rlabels = <<>>
    /\ rplain = <<>>
    /\ rstar = <<>>
    /\ DOMAINS = <<>>
    /\ order = <<>>
    /\ \E k \in 0..MaxOld : \E other \in BOOLEAN :
          /\ zone_records = OldRecords(k, other)
          /\ next_id = Cardinality(OldRecords(k, other)) + 1
    /\ record_ids = <<>>
    /\ pc = "cleanup_only"
    /\ ci = 0
    /\ challenges_by_record = <<>>
    /\ cleaned_locations = {}
    /\ dns_records_created = <<>>
    /\ all_records_present = TRUE
    /\ gi = 0
    /\ mi = 0
    /\ authz_response = "unbound"
    /\ elapsed = 0
    /\ ti = 0
    /\ caught = <<>>
    /\ result = "running"
    /\ err = <<>>
    /\ saved = FALSE
    /\ cleanup_calls = <<>>
    /\ delete_calls = <<>>
    /\ answered = <<>>
    /\ polled = {}
    /\ validated = {}
    /\ invalid_at = 0
    /\ waited = FALSE
    /\ finalize_called = FALSE
    /\ trigger = <<>>
    /\ failed_step = "none"
    /\ last_cleanup = <<>>

\* One call of cleanup_old_challenge_records(domain, subdomain); every call
\* after the first is for the location of the first.
CleanupCall ==
    /\ pc = "cleanup_only"
    /\ Len(cleanup_calls) < MaxCalls
    /\ \E subdomain \in { <<>>, <<"c">> } :
          LET location_key == <<get_base_domain(ApexDomain), subdomain>>
              n == Len(ovh_list(zone_records, get_zone(ApexDomain),
                                record_name_of(subdomain)))
          IN  /\ cleanup_calls # <<>> => location_key = cleanup_calls[1]
              /\ \E fail_at \in 0..(n + 2) :
                    LET r == cleanup_old_challenge_records(
                                 zone_records, ApexDomain, subdomain, fail_at)
                    IN  /\ zone_records' = r.zone_records
                        /\ cleanup_calls' = Append(cleanup_calls, location_key)
                        /\ last_cleanup' = <<r.listed, r.deleted, r.refreshed,
                                             r.failure>>
    /\ UNCHANGED <<rvars, DOMAINS, order, next_id, record_ids, pc, ci,
                   challenges_by_record, cleaned_locations, dns_records_created,
                   all_records_present, gi, mi, authz_response, elapsed, ti,
                   caught, result, err, saved, delete_calls, answered, polled,
                   validated, invalid_at, waited, finalize_called, trigger,
                   failed_step>>

NextCleanup == CleanupCall

SpecCleanup == InitCleanup /\ [][NextCleanup]_vars

\* ------------------------------------------------------------------------
\* Standalone specification: cleanup_acme_records.py run once
\* ------------------------------------------------------------------------

\* cleanup_acme_records(). fail_at numbers the provider call that raises: 0
\* the listing, 2j - 1 the read of the j-th record, 2j its delete, 2n + 1 the
\* zone refresh, anything larger none. An exception is printed and raised
\* again; an empty listing returns at once.
cleanup_acme_records(zr, domains, fail_at) ==
    LET first_domain == Replace(domains[1], <<"*", ".">>, <<>>)
        parts == Split(first_domain, ".")
        zone == IF Len(parts) >= 2 THEN Join(LastTwo(parts), ".")
                ELSE first_domain
        ids == IF fail_at = 0 THEN <<>>
               ELSE ovh_list(zr, zone, <<"_acme-challenge">>)
        n == Len(ids)
        ndel == IF fail_at = 0 THEN 0
                ELSE IF fail_at <= 2 * n THEN (fail_at - 1) \div 2 ELSE n
        gone == { ids[j] : j \in 1..ndel }
    IN  [zone_records |-> { r \in zr : ~(r.zone = zone /\ r.id \in gone) },
         deleted |-> ndel,
         raised |-> fail_at = 0 \/ (n > 0 /\ fail_at <= 2 * n + 1)]

DomainPool == { ApexDomain, WildcardDomain, SubDomain, OtherZoneDomain }

\* What the zones hold when the script starts: the records of OldRecords in
\* the zone of a.b and possibly one at _acme-challenge in the zone of a.c.
StandaloneZones ==
    { OldRecords(k, other) \cup
        (IF far
         THEN { [id |-> MaxOld + 2, zone |-> get_zone(OtherZoneDomain),
                 subDomain |-> record_name_of(<<>>), target |-> <<"v1">>] }
         ELSE {}) : k \in 0..MaxOld, other \in BOOLEAN, far \in BOOLEAN }

InitStandalone ==
    /\ rlabels = <<>>
    /\ rplain = <<>>
    /\ rstar = <<>>
    /\ DOMAINS \in SeqsUpTo(DomainPool, MaxAuthz) \ { <<>> }
    /\ order = <<>>
    /\ zone_records \in StandaloneZones
    /\ next_id = MaxOld + 3
    /\ record_ids = <<>>
    /\ pc = "standalone"
    /\ ci = 0
    /\ challenges_by_record = <<>>
    /\ cleaned_locations = {}
    /\ dns_records_created = <<>>
    /\ all_records_present = TRUE
    /\ gi = 0
    /\ mi = 0
    /\ authz_response = "unbound"
    /\ elapsed = 0
    /\ ti = 0
    /\ caught = <<>>
    /\ result = "running"
    /\ err = <<>>
    /\ saved = FALSE
    /\ cleanup_calls = <<>>
    /\ delete_calls = <<>>
    /\ answered = <<>>
    /\ polled = {}
    /\ validated = {}
    /\ invalid_at = 0
    /\ waited = FALSE
    /\ finalize_called = FALSE
    /\ trigger = <<>>
    /\ failed_step = "none"
    /\ last_cleanup = <<>>

\* The script, from its start to its return or its exception.
RunStandalone ==
    /\ pc = "standalone"
    /\ LET n == Len(ovh_list(zone_records, get_zone(clean_domain(DOMAINS[1])),
                             <<"_acme-challenge">>))
       IN  \E fail_at \in 0..(2 * n + 2) :
             LET r == cleanup_acme_records(zone_records, DOMAINS, fail_at)
             IN  /\ zone_records' = r.zone_records
                 /\ pc' = "standalone_done"
                 /\ result' = IF r.raised THEN "raised" ELSE "returned"
                 /\ err' = IF r.raised THEN <<"ProviderError">> ELSE <<>>
                 /\ last_cleanup' = <<fail_at # 0, r.deleted>>
    /\ UNCHANGED <<rvars, DOMAINS, order, next_id, record_ids, ci,
                   challenges_by_record, cleaned_locations, dns_records_created,
                   all_records_present, gi, mi, authz_response, elapsed, ti,
                   caught, saved, cleanup_calls, delete_calls, answered, polled,
                   validated, invalid_at, waited, finalize_called, trigger,
                   failed_step>>

NextStandalone == RunStandalone

SpecStandalone == InitStandalone /\ [][NextStandalone]_vars

\* ------------------------------------------------------------------------
\* Verification specification: the check of one group against what the
\* provider reports at its location
\* ------------------------------------------------------------------------

MaxReported == 3

\* The values a reported TXT target may hold: the validation values, and one
\* that is nobody's validation.
TargetValues == { "v1", "v2", "other" }

\* What the provider may report at _acme-challenge.a.b: records 1..k with
\* any targets.
ReportedZones ==
    UNION { { { [id |-> i, zone |-> get_zone(ApexDomain),
                 subDomain |-> record_name_of(<<>>), target |-> <<t[i]>>] :
                i \in 1..k } : t \in [1..k -> TargetValues] } :
            k \in 0..MaxReported }

\* The entry of challenges_by_record of a.b with the given validations, the
\* m-th being the one of the m-th authorization.
GroupOf(validations) ==
    [base_domain |-> get_base_domain(ApexDomain), subdomain |-> <<>>,
     validations |-> validations,
     challenges |-> [m \in 1..Len(validations) |-> m]]

InitVerify ==
    /\ rlabels = <<>>
    /\ rplain = <<>>
    /\ rstar = <<>>
    /\ DOMAINS = <<>>
    /\ order = <<>>
    /\ zone_records \in ReportedZones
    /\ next_id = MaxReported + 1
    /\ record_ids = <<>>
    /\ pc = "verify_only"
    /\ ci = 0
    /\ challenges_by_record \in
          { <<GroupOf(v)>> : v \in { <<"v1">>, <<"v2">>, <<"v1", "v2">>,
                                     <<"v2", "v1">> } }
    /\ cleaned_locations = {}
    /\ dns_records_created = <<>>
    /\ all_records_present = TRUE
    /\ gi = 1
    /\ mi = 0
    /\ authz_response = "unbound"
    /\ elapsed = 0
    /\ ti = 0
    /\ caught = <<>>
    /\ result = "running"
    /\ err = <<>>
    /\ saved = FALSE
    /\ cleanup_calls = <<>>
    /\ delete_calls = <<>>
    /\ answered = <<>>
    /\ polled = {}
    /\ validated = {}
    /\ invalid_at = 0
    /\ waited = FALSE
    /\ finalize_called = FALSE
    /\ trigger = <<>>
    /\ failed_step = "none"
    /\ last_cleanup = <<>>

\* One pass of the body of the verification loop.
VerifyGroup ==
    /\ pc = "verify_only"
    /\ \E failing \in BOOLEAN, quoted \in BOOLEAN :
         all_records_present' =
             (all_records_present /\
                verify_group(zone_records, challenges_by_record[gi],
                             failing, quoted))
    /\ pc' = "verify_done"
    /\ UNCHANGED <<rvars, DOMAINS, order, zone_records, next_id, record_ids, ci,
                   challenges_by_record, cleaned_locations, dns_records_created,
                   gi, mi, authz_response, elapsed, ti, caught, result, err,
                   saved, hvars>>

NextVerify == VerifyGroup

SpecVerify == InitVerify /\ [][NextVerify]_vars

\* ------------------------------------------------------------------------
\* Record-location properties
\* ------------------------------------------------------------------------

\* The domain of the record-location specification, as the string requested.
RDomain == Join(rlabels, ".")

\* Labels of a well-formed name: non-empty, letters only.
LetterLabels == \A i \in 1..Len(rlabels) : rlabels[i] \in { <<"a">>, <<"b">>, <<"a", "b">> }

\* C9: a domain without a wildcard prefix and the same domain behind "*."
\* get the same record location, and for the two-label apex a.b that
\* location is (a.b, "").
C9_WildcardCollapse ==
    (rplain # <<>> /\ rstar # <<>> /\ ~StartsWith(RDomain, WildcardPrefix))
        => /\ rplain = rstar
           /\ (rlabels = << <<"a">>, <<"b">> >>
                  => rplain = << <<"a", ".", "b">>, <<>> >>)

C9_Witness ==
    /\ rlabels = << <<"a">>, <<"b">> >>
    /\ rplain = << <<"a", ".", "b">>, <<>> >>
    /\ rstar = rplain

\* The location the decomposition by labels gives: the last two labels as
\* the zone (the whole domain with fewer than two), the labels before them
\* as the subdomain.
LocationByLabels(labels) ==
    << Join(LastTwo(labels), "."),
       Join(SubSeq(labels, 1, Len(labels) - 2), ".") >>

\* C10: for a domain of n >= 1 labels the zone is the last two labels and
\* the subdomain is exactly the labels before them, also when the zone's
\* labels occur again earlier in the domain.
C10_LocationDecomposition ==
    LetterLabels =>
        /\ (rplain # <<>> => rplain = LocationByLabels(rlabels))
        /\ (rstar # <<>> => rstar = LocationByLabels(rlabels))

\* ------------------------------------------------------------------------
\* Issuance properties
\* ------------------------------------------------------------------------

AllAuthz == 1..Len(order)

\* The authorizations in the group-then-member order of the loops of Steps 5
\* and 6.
RECURSIVE ChallengeOrder(_)
ChallengeOrder(cbr) ==
    IF cbr = <<>> THEN <<>> ELSE Head(cbr).challenges \o ChallengeOrder(Tail(cbr))

PollOrder == ChallengeOrder(challenges_by_record)

\* The place of authorization i in the poll order.
PollPosition(i) == CHOOSE p \in 1..Len(PollOrder) : PollOrder[p] = i

\* Every created record has had delete_txt_record called for it.
EveryCreatedDeleteAttempted ==
    \A k \in 1..Len(dns_records_created) :
        \E j \in 1..Len(delete_calls) : delete_calls[j] = dns_records_created[k]

\* C1: when a request that created at least one TXT record fails in the
\* Answering, the Polling or the Finalizing step, the handle table record_ids
\* is empty once request_certificate has given control back to its caller.
C1_TeardownCompleteness ==
    (/\ result = "raised"
     /\ failed_step \in { "answer", "poll", "finalize" }
     /\ dns_records_created # <<>>)
        => DOMAIN record_ids = {}

\* C2: when create_txt_record raises after at least one record was created,
\* delete_txt_record has been called for each record already created by the
\* time the exception leaves request_certificate.
C2_TeardownOnCreateFailure ==
    (/\ result = "raised"
     /\ failed_step = "create"
     /\ dns_records_created # <<>>)
        => EveryCreatedDeleteAttempted

\* C3: domains are polled one after the other in group-then-member order;
\* once the poll of a domain has returned Invalid, no domain after it in that
\* order is ever polled, no order is returned, and the error
\* request_certificate raises is the validation failure naming that domain.
C3_FatalShortCircuit ==
    /\ \A i \in polled : PollPosition(i) <= PollPosition(CurrentAuthz)
    /\ invalid_at # 0 =>
          /\ \A i \in polled : PollPosition(i) <= PollPosition(invalid_at)
          /\ result # "returned"
          /\ result = "raised" =>
                err = <<"ValidationFailed", order[invalid_at].domain_name>>

C3_Witness ==
    /\ Len(order) = 2
    /\ invalid_at # 0
    /\ PollPosition(invalid_at) = 1
    /\ polled = {invalid_at}
    /\ result = "raised"
    /\ err = <<"ValidationFailed", order[invalid_at].domain_name>>

\* C4: an order is returned, and the certificate and key are written, only
\* if the authorization of every domain was polled Valid; poll_and_finalize
\* is never called when a domain ended Invalid or without a Valid poll before
\* its deadline.
C4_NoCertificateWithoutValidation ==
    (finalize_called \/ result = "returned" \/ saved) => validated = AllAuthz

\* C5: the exception request_certificate raises is the one that triggered
\* the failure; after a failure inside the polling step it is the exception
\* the handler caught, whatever provider call of delete_txt_record fails
\* during the teardown, and the request never ends otherwise than raising it.
C5_OriginalErrorSurfaced ==
    /\ result = "raised" => (trigger # <<>> /\ err = trigger)
    /\ failed_step = "poll" =>
          /\ trigger # <<>>
          /\ caught = trigger
          /\ result # "returned"

\* The teardown of a failed request in which a provider call of
\* delete_txt_record failed: a created record is still in the handle table.
C5_Witness ==
    /\ result = "raised"
    /\ failed_step = "poll"
    /\ err = trigger
    /\ Len(delete_calls) = Len(dns_records_created)
    /\ DOMAIN record_ids # {}

\* C6: whatever the verification phase finds, the request goes on from it to
\* the propagation wait, the public probe and the first answer: no step from
\* the verification to the answering ends the request.
C6_VerificationAdvisory ==
    [][/\ pc = "verify" => (pc' \in { "verify", "wait" } /\ result' = "running")
       /\ pc = "wait" => (pc' = "probe" /\ result' = "running")
       /\ pc = "probe" => (pc' = "answer" /\ result' = "running")]_vars

\* A request whose verification found a mismatch and that went on to poll.
C6_Witness ==
    /\ ~all_records_present
    /\ waited
    /\ Len(answered) = Len(order)
    /\ polled # {}

\* C7: every pre-cleanup call precedes every create, every create precedes
\* the propagation wait, the wait precedes the first answer, every answer
\* precedes the first poll, every domain is Valid before the first delete of
\* the teardown of Step 7, and every created record has had its delete
\* attempted before poll_and_finalize is called.
C7_PhaseOrdering ==
    [][/\ next_id' # next_id =>
             /\ Len(cleanup_calls) = Len(challenges_by_record)
             /\ ~waited
       /\ cleanup_calls' # cleanup_calls => next_id = 2
       /\ (waited' /\ ~waited) =>
             Len(dns_records_created) = Len(order)
       /\ answered' # answered => waited
       /\ polled' # polled => Len(answered) = Len(order)
       /\ (pc = "teardown_ok" /\ delete_calls' # delete_calls) =>
             validated = AllAuthz
       /\ (finalize_called' /\ ~finalize_called) =>
             /\ Len(delete_calls) = Len(dns_records_created)
             /\ EveryCreatedDeleteAttempted]_vars

\* C8: after the collection step every authorization of the order is in
\* exactly one entry of challenges_by_record, exactly once in that entry's
\* challenges, and an entry's validations are, one for one and in the same
\* order, the validation values of its challenges.
C8_GroupingIsPartition ==
    (pc \notin { "idle", "collect" } /\ failed_step # "collect") =>
        /\ \A i \in AllAuthz :
              Cardinality({ gm \in { <<g, m>> :
                                       g \in 1..Len(challenges_by_record),
                                       m \in 1..Len(order) } :
                              /\ gm[2] <= Len(challenges_by_record[gm[1]].challenges)
                              /\ challenges_by_record[gm[1]].challenges[gm[2]] = i })
                = 1
        /\ Len(PollOrder) = Len(order)
        /\ \A g \in 1..Len(challenges_by_record) :
              LET info == challenges_by_record[g]
              IN  /\ Len(info.validations) = Len(info.challenges)
                  /\ \A m \in 1..Len(info.challenges) :
                        info.validations[m] = order[info.challenges[m]].validation

\* Collection done for an apex domain and its wildcard: one entry, two members.
C8_Witness ==
    /\ pc = "cleanup"
    /\ Len(order) = 2
    /\ Len(challenges_by_record) = 1
    /\ challenges_by_record[1].challenges = <<1, 2>>
    /\ challenges_by_record[1].validations = <<"v1", "v2">>

\* ------------------------------------------------------------------------
\* Pre-cleanup properties
\* ------------------------------------------------------------------------

\* The TXT records the provider lists at the location the cleanup calls are for.
RecordsAtCleaned(zr, calls) ==
    ovh_list(zr, get_zone(calls[1][1]), record_name_of(calls[1][2]))

\* A cleanup call whose listing and deletes all went through.
CleanupWentThrough(lc) == lc[4] \in { "none", "refresh" }

ChallengeRecordsOf(zr, domain) ==
    LET loc == record_location(domain)
    IN  ovh_list(zr, get_zone(loc[1]), record_name_of(loc[2]))

\* C12: when cleanup_acme_records() has returned without raising, no
\* _acme-challenge TXT record is left for any domain of DOMAINS, whatever its
\* zone or subdomain.
C12_StandaloneRemovesAll ==
    (pc = "standalone_done" /\ result = "returned") =>
        \A i \in 1..Len(DOMAINS) :
            ChallengeRecordsOf(zone_records, DOMAINS[i]) = <<>>

\* ------------------------------------------------------------------------
\* Poll-loop properties
\* ------------------------------------------------------------------------

\* A step of the poll loop in which self.client.poll was called (the other
\* step of the loop is the loop condition failing).
PollIssued ==
    /\ pc = "poll_loop"
    /\ ~(pc' = "poll_after" /\ authz_response' = authz_response
                            /\ validated' = validated)

\* The step that follows the loop of one domain: the check of line 393.
LoopOutcomeDecided == pc = "poll_after" /\ pc' # "poll_after"

\* C13: the poll loop of a domain ends Valid, Invalid or TimedOut. A poll is
\* issued only before the domain's deadline and only while the domain has
\* returned neither Valid nor Invalid; Invalid raises at once; and a domain
\* whose loop is left without a Valid poll ends with the TimeoutError of that
\* domain, which ends the request.
C13_PollLoopOutcome ==
    [][/\ PollIssued =>
             /\ elapsed < PollTimeout
             /\ CurrentAuthz \notin validated
             /\ invalid_at # CurrentAuthz
       /\ (PollIssued /\ authz_response' = "invalid" /\ trigger' # <<"PollError">>) =>
             /\ pc' = "teardown_fail"
             /\ trigger' = <<"ValidationFailed", order[CurrentAuthz].domain_name>>
       /\ LoopOutcomeDecided =>
             IF CurrentAuthz \in validated
             THEN pc' \in { "poll_start", "teardown_ok" } /\ trigger' = <<>>
             ELSE /\ pc' = "teardown_fail"
                  /\ trigger' = <<"TimeoutError", order[CurrentAuthz].domain_name>>
      ]_vars

\* C14: the request goes on after the loop of a domain (to the next domain,
\* or to the teardown of Step 7) only if a poll of that domain's own
\* authorization returned Valid, also when the loop body ran zero times.
C14_OwnResponseDecides ==
    [][(LoopOutcomeDecided /\ pc' \in { "poll_start", "teardown_ok" }) =>
            /\ CurrentAuthz \in polled
            /\ CurrentAuthz \in validated]_vars

\* ------------------------------------------------------------------------
\* Record set-up and teardown properties
\* ------------------------------------------------------------------------

\* The record locations of the order's domains.
Locations == { record_location(order[i].domain_name) : i \in 1..Len(order) }

\* The request is still in Step 1 or in the cleanup loop of Step 2.
BeforeCreate == pc \in { "collect", "cleanup" } \/ failed_step = "collect"

\* C15: cleanup_old_challenge_records is called at most once for a location;
\* while the cleanup loop has not ended no record has been created (and no
\* create attempted); and from the first create on it has been called for
\* every location of the order, once each.
C15_CleanupOncePerLocation ==
    /\ \A i, j \in 1..Len(cleanup_calls) :
            i # j => cleanup_calls[i] # cleanup_calls[j]
    /\ BeforeCreate =>
            /\ next_id = 2
            /\ dns_records_created = <<>>
            /\ record_ids = <<>>
            /\ failed_step # "create"
    /\ ~BeforeCreate =>
            /\ { cleanup_calls[i] : i \in 1..Len(cleanup_calls) } = Locations
            /\ Len(cleanup_calls) = Cardinality(Locations)

\* Two authorizations at two locations, both cleaned, in the order of the
\* groups, and a record created since.
C15_Witness ==
    /\ Len(order) = 2
    /\ cleanup_calls = <<record_location(order[1].domain_name),
                         record_location(order[2].domain_name)>>
    /\ cleanup_calls[1] # cleanup_calls[2]
    /\ last_cleanup[1]
    /\ next_id > 2

\* A teardown loop (the one of the except handler or the one of Step 7) has
\* been entered and left.
TeardownOver ==
    \/ pc \in { "finalize", "main_save" }
    \/ pc = "done" /\ failed_step \in { "poll", "teardown", "finalize", "none" }

\* C16: the calls of delete_txt_record made so far are, one for one and in
\* the same order, the first entries of dns_records_created, and once a
\* teardown loop is over they are all of them, whatever provider call failed
\* in any of the deletes.
C16_TeardownCallsInOrder ==
    /\ Len(delete_calls) <= Len(dns_records_created)
    /\ \A i \in 1..Len(delete_calls) : delete_calls[i] = dns_records_created[i]
    /\ TeardownOver => delete_calls = dns_records_created

\* Two records created (ids 2 and 3), the provider delete of the first
\* failed and left it in the zone, the second was deleted all the same.
C16_Witness ==
    /\ TeardownOver
    /\ Len(dns_records_created) = 2
    /\ Len(delete_calls) = 2
    /\ DOMAIN record_ids = { record_key_of(record_name_of(dns_records_created[1][2]),
                                           dns_records_created[1][3]) }
    /\ \E r \in zone_records : r.id = 2
    /\ \A r \in zone_records : r.id # 3

\* The key of record_ids under which a created record is tracked.
HandleKey(c) == record_key_of(record_name_of(c[2]), c[3])

\* C17: delete_txt_record never raises, and once it has returned for a
\* tracked record that record's key is no longer in record_ids, also when the
\* provider delete or the zone refresh failed.
C17_DeleteRemovesHandle ==
    /\ failed_step # "teardown"
    /\ \A i \in 1..Len(delete_calls) :
            HandleKey(delete_calls[i]) \notin DOMAIN record_ids

\* A record of the zone is the one an entry of dns_records_created stands for.
ListedAsCreated(r) ==
    \E k \in 1..Len(dns_records_created) :
        LET c == dns_records_created[k]
        IN  /\ r.zone = get_zone(c[1])
            /\ r.subDomain = record_name_of(c[2])
            /\ r.target = <<c[3]>>

\* C18: the provider has created, during the request, as many records as
\* dns_records_created lists, every one of them still in the zone is listed
\* there, and record_ids tracks no more keys than there are entries; so a
\* create_txt_record that raised added no record and no key.
C18_CreateAtomic ==
    /\ next_id - 2 = Len(dns_records_created)
    /\ \A r \in zone_records : r.id >= 2 => ListedAsCreated(r)
    /\ Cardinality(DOMAIN record_ids) <= Len(dns_records_created)

\* No create_txt_record has raised and no delete_txt_record has been called.
OnlySuccessfulCreates == failed_step # "create" /\ delete_calls = <<>>

\* C19: after successful creates only, record_ids holds one entry per created
\* record, and the entry under a created record's key is the id of that
\* record, in its zone, also for groups of the same record name in different
\* zones.
C19_HandlesAddressable ==
    OnlySuccessfulCreates =>
        /\ Cardinality(DOMAIN record_ids) = Len(dns_records_created)
        /\ \A k \in 1..Len(dns_records_created) :
              LET c == dns_records_created[k]
              IN  /\ HandleKey(c) \in DOMAIN record_ids
                  /\ \E r \in zone_records :
                        /\ r.id = record_ids[HandleKey(c)]
                        /\ r.zone = get_zone(c[1])
                        /\ r.subDomain = record_name_of(c[2])
                        /\ r.target = <<c[3]>>

\* ------------------------------------------------------------------------
\* Verification properties
\* ------------------------------------------------------------------------

\* The TXT targets the provider reports at the location of a group.
ReportedTargets(info) ==
    { r.target : r \in { q \in zone_records :
                            /\ q.zone = get_zone(info.base_domain)
                            /\ q.subDomain = record_name_of(info.subdomain) } }

\* C20: all_records_present is true after the check of a group only if every
\* validation value of the group is the target of a record the provider
\* reports at the group's location, also when the provider reports one value
\* on several records.
C20_PresentMeansAllFound ==
    (pc = "verify_done" /\ all_records_present) =>
        \A j \in 1..Len(challenges_by_record[gi].validations) :
            <<challenges_by_record[gi].validations[j]>>
                \in ReportedTargets(challenges_by_record[gi])

\* ------------------------------------------------------------------------
\* Best-effort cleanup and the missing DNS-01 challenge
\* ------------------------------------------------------------------------

\* C21: cleanup_old_challenge_records never raises: a step of the cleanup
\* loop leaves the request running, in the cleanup loop or at the head of the
\* create loop, whatever provider call failed; and a call issues the zone
\* refresh only if it deleted at least one record.
C21_CleanupBestEffort ==
    [][/\ pc = "cleanup" =>
             /\ pc' \in { "cleanup", "create" }
             /\ result' = "running"
             /\ failed_step' = "none"
       /\ cleanup_calls' # cleanup_calls =>
             (last_cleanup'[3] => last_cleanup'[2] >= 1)]_vars

\* The listing of the old record went through, its delete raised, nothing
\* was deleted and no refresh issued, and the request is in the create loop.
C21_Witness ==
    /\ pc = "create"
    /\ result = "running"
    /\ last_cleanup = <<TRUE, 0, FALSE, "delete">>
    /\ \E r \in zone_records : r.id = 1

\* An authorization of the order offers no DNS-01 challenge.
SomeAuthzWithoutDNS01 == \E i \in 1..Len(order) : ~order[i].dns01

\* C22: when an authorization of the order offers no DNS-01 challenge, the
\* request never leaves Step 1 otherwise than by raising 'No DNS-01 challenge
\* found', and no provider call is made: no cleanup, no create, no listing
\* for the verification, no delete, and the zone is as it was.
C22_NoDNS01FailsFirst ==
    SomeAuthzWithoutDNS01 =>
        /\ pc \in { "collect", "done" }
        /\ pc = "done" =>
              /\ result = "raised"
              /\ err = <<"NoDNS01">>
              /\ failed_step = "collect"
        /\ cleanup_calls = <<>>
        /\ last_cleanup = <<>>
        /\ next_id = 2
        /\ record_ids = <<>>
        /\ dns_records_created = <<>>
        /\ delete_calls = <<>>
        /\ zone_records \in OldZones

\* The second authorization is the one without a DNS-01 challenge: the first
\* was collected, the request has raised, and the old record is untouched.
C22_Witness ==
    /\ Len(order) = 2
    /\ order[1].dns01
    /\ ~order[2].dns01
    /\ Len(challenges_by_record) = 1
    /\ pc = "done"
    /\ err = <<"NoDNS01">>
    /\ zone_records # {}

====
